---------------------------- MODULE Spec2Model ----------------------------
(***************************************************************************)
(* Model of Inicio.py: a Streamlit page that sends every PDF invoice of    *)
(* the folder "facturas" to a remote extraction service and keeps the      *)
(* outcomes in the session.                                                *)
(*                                                                         *)
(* One script run of the page (Streamlit reruns the whole script on every  *)
(* interaction) is a sequence of steps, followed by pc:                    *)
(*   idle -> top -> [runner -> (call -> wait)*] -> export -> tail ->       *)
(*   [single -> single_wait] -> idle                                       *)
(* A step runs from one blocking point of the script (a call of the remote *)
(* service, an enumeration of the folder, the operator) to the next.       *)
(* The folder is shared with the rest of the machine: files appear and     *)
(* disappear between any two steps, so every enumeration of it returns any *)
(* listing.                                                                *)
(*                                                                         *)
(* Texts are sequences of fragments; str.lower() and the `in` test on      *)
(* texts work fragment by fragment.                                        *)
(***************************************************************************)
EXTENDS Naturals, Sequences, FiniteSets

\* ---------------------------------------------------------------- bounds
\* Number of distinct PDF names that can exist in the folder.
MaxFiles == 2
\* Last value of the clock (datetime.now() at one-second resolution).
MaxTime == 1

AllNames == <<"A.pdf", "B.pdf", "C.pdf", "D.pdf">>
Names == {AllNames[i] : i \in 1..MaxFiles}
Times == 0..MaxTime

\* --------------------------------------------------------------- texts
None == "<None>"
\* What the operator can have in the API key field (line 129).
KeyInputs == {"", "sk-ant-key"}

\* The answer of the remote model (message.content[0].text, line 64).
Payload == <<"IVA 19% ... TOTAL ...">>
\* str(e) of the failures of an extraction call.
Timeout == <<"Request timed out.">>
AuthFailure == <<"Error code: 401 - ", "Authentication", "_error: ", "Invalid x-api-key">>
Failures == {Timeout, AuthFailure}
\* str(e) of len(None) (line 197 when process_all_invoices returned None).
NoneTypeError == <<"object of type 'NoneType' has no len()">>

\* str.lower(), fragment by fragment.
LowerFragment(w) ==
    CASE w = "Authentication" -> "authentication"
      [] w = "Invalid x-api-key" -> "invalid x-api-key"
      [] OTHER -> w
Lower(s) == [i \in 1..Len(s) |-> LowerFragment(s[i])]
\* `w in s`
Contains(s, w) == \E i \in 1..Len(s) : s[i] = w

\* Lines 204 and 312: the test for an authentication failure.
IsAuthError(e) ==
    Contains(Lower(e), "invalid x-api-key") \/ Contains(Lower(e), "authentication")

\* ------------------------------------------------------------ messages
\* What st.error / st.success put on the page during one script run.
Msg(kind, text, n) == [kind |-> kind, text |-> text, n |-> n]
NoFacturas == Msg("error: No hay facturas en la carpeta", <<>>, 0)
Completado(n) == Msg("success: Procesamiento completado", <<>>, n)
ErrorProcesamiento(e) == Msg("error: Error en el procesamiento", e, 0)
ApiKeyInvalida == Msg("error: API Key invalida", <<>>, 0)
ExtraccionCompletada == Msg("success: Extraccion completada", <<>>, 0)
ErrorIndividual(e) == Msg("error: Error", e, 0)

VARIABLES
    now,           \* the clock
    keyInput,      \* value of the API key text field
    ss_keys,       \* keys present in st.session_state
    ss_api_key,    \* st.session_state['api_key']
    ss_results,    \* st.session_state['results'] (a dict, in insertion order)
    ss_processed_at, \* st.session_state['processed_at']
    pc,            \* position of the script run
    trigger,       \* the button that started this script run
    uploaded,      \* uploaded_file.name of this script run
    has_api_key,   \* line 178
    pdf_files,     \* line 153: the page's enumeration
    run_files,     \* line 69: the runner's enumeration
    idx,           \* line 77
    results,       \* line 68: the runner's dict
    screen,        \* messages shown by this script run
    combined_text, \* line 214: the text export
    df_summary,    \* line 232: the table export
    statusLog,     \* status_text.text() calls of this run (line 78)
    progressLog,   \* progress_bar.progress() calls of this run (line 94)
    calls          \* extract_iva_from_pdf calls of this script run

vars == <<now, keyInput, ss_keys, ss_api_key, ss_results, ss_processed_at,
          pc, trigger, uploaded, has_api_key, pdf_files, run_files, idx,
          results, screen, combined_text, df_summary, statusLog, progressLog,
          calls>>

sessionVars == <<ss_keys, ss_api_key, ss_results, ss_processed_at>>
runnerVars == <<run_files, idx, results, statusLog, progressLog>>
exportVars == <<combined_text, df_summary>>
pageVars == <<keyInput, trigger, uploaded, has_api_key, pdf_files>>

\* ------------------------------------------------------------- helpers
\* The listings of a folder that holds the files dir: each file once, in the
\* order the file system gives them, which is any order.
Listings(dir) ==
    {s \in [1..Cardinality(dir) -> dir] :
        \A i, j \in 1..Cardinality(dir) : i # j => s[i] # s[j]}

\* list(Path(folder).glob("*.pdf")), lines 69 and 153. The folder is shared
\* with the rest of the machine, which adds and removes files at any time:
\* what it holds at the moment of a call is any set of PDF names.
Glob == UNION {Listings(dir) : dir \in SUBSET Names}

\* datetime.now().strftime(...): the clock read at one-second resolution.
\* It never runs backwards; any time may have passed since the last read.
ClockAfter(t) == {u \in Times : t <= u}
ClockReads == ClockAfter(now)

\* A dict that would put a new key first.
DictSetFront(d, k, v) ==
    IF \E i \in 1..Len(d) : d[i].filename = k
    THEN [i \in 1..Len(d) |-> IF d[i].filename = k THEN v ELSE d[i]]
    ELSE <<v>> \o d

\* d[k] = v on a dict kept as the sequence of its items in insertion order:
\* an existing key keeps its place, a new key goes last.
DictSet(d, k, v) ==
    IF \E i \in 1..Len(d) : d[i].filename = k
    THEN [i \in 1..Len(d) |-> IF d[i].filename = k THEN v ELSE d[i]]
    ELSE Append(d, v)

DictKeys(d) == {d[i].filename : i \in 1..Len(d)}

\* Lines 82-86.
SuccessOutcome(name, text, t) ==
    [filename |-> name, status |-> "success", data |-> text, timestamp |-> t]
\* Lines 88-92.
ErrorOutcome(name, e, t) ==
    [filename |-> name, status |-> "error", data |-> <<"Error: ">> \o e, timestamp |-> t]

Init ==
    /\ now = 0
    /\ keyInput \in KeyInputs
    /\ ss_keys = {}
    /\ ss_api_key = None
    /\ ss_results = <<>>
    /\ ss_processed_at = 0
    /\ pc = "top"
    /\ trigger = "none"
    /\ uploaded = None
    /\ has_api_key = FALSE
    /\ pdf_files = <<>>
    /\ run_files = <<>>
    /\ idx = 0
    /\ results = <<>>
    /\ screen = <<>>
    /\ combined_text = <<>>
    /\ df_summary = <<>>
    /\ statusLog = <<>>
    /\ progressLog = <<>>
    /\ calls = <<>>


\* ------------------------------------------------------------- exports
Line(label, text, t) == [label |-> label, text |-> text, t |-> t]

\* Lines 218-222: the section of one item of the dict.
Section(item) ==
    << Line("FACTURA: ", <<item.filename>>, 0),
       Line("Estado: ", <<item.status>>, 0),
       Line("-" , <<>>, 0),
       Line("", item.data, 0),
       Line("=", <<>>, 0) >>

RECURSIVE Sections(_)
\* Lines 217-222: the loop over results.items().
Sections(d) ==
    IF d = <<>> THEN <<>> ELSE Section(Head(d)) \o Sections(Tail(d))

\* Lines 214-222.
Report(d, processed_at) ==
    << Line("EXTRACCION DE BASES DE IVA", <<>>, 0),
       Line("Fecha: ", <<>>, processed_at),
       Line("=", <<>>, 0) >> \o Sections(d)

\* Lines 101-111.
create_summary_table(d) ==
    [i \in 1..Len(d) |->
        [Factura |-> d[i].filename,
         Estado |-> d[i].status,
         FechaProcesamiento |-> d[i].timestamp,
         Resultado |-> d[i].data]]

\* ---------------------------------------------------- the page's handlers
\* Lines 202-205: the except clause around the batch run.
BatchExcept(e) ==
    <<ErrorProcesamiento(e)>> \o (IF IsAuthError(e) THEN <<ApiKeyInvalida>> ELSE <<>>)

\* Lines 310-313: the except clause around the single extraction.
SingleExcept(e) ==
    <<ErrorIndividual(e)>> \o (IF IsAuthError(e) THEN <<ApiKeyInvalida>> ELSE <<>>)

\* Lines 137-142.
ApiKeyFromInput(input) == IF input # "" THEN input ELSE None

\* Line 178.
HasApiKey(key) == key # None /\ key # ""

\* The log of the calls of extract_iva_from_pdf: a call starts (lines 81 and
\* 307), then returns (line 64) or raises.
CallStarted(name) ==
    Append(calls, [filename |-> name, result |-> "pending", error |-> <<>>])
CallReturned == [calls EXCEPT ![Len(calls)].result = "returned"]
CallRaised(e) ==
    [calls EXCEPT ![Len(calls)].result = "raised", ![Len(calls)].error = e]

\* ------------------------------------------------------------- operator
\* The operator edits the API key field (line 129); the page reruns.
TypeKey(k) ==
    /\ pc = "idle"
    /\ keyInput' = k
    /\ trigger' = "none"
    /\ pc' = "top"
    /\ UNCHANGED <<now, sessionVars, uploaded, has_api_key, pdf_files, runnerVars,
                   screen, exportVars, calls>>

\* A batch button that would not be disabled without an API key.
ClickBatchAlwaysEnabled ==
    /\ pc = "idle"
    /\ trigger' = "batch"
    /\ pc' = "top"
    /\ UNCHANGED <<now, sessionVars, keyInput, uploaded, has_api_key, pdf_files,
                   runnerVars, screen, exportVars, calls>>

\* The operator presses "Procesar todas las facturas" (line 189), which is
\* disabled while the page was rendered without an API key.
ClickBatch ==
    /\ pc = "idle"
    /\ has_api_key
    /\ trigger' = "batch"
    /\ pc' = "top"
    /\ UNCHANGED <<now, sessionVars, keyInput, uploaded, has_api_key, pdf_files,
                   runnerVars, screen, exportVars, calls>>

\* The operator uploads a PDF (line 296, disabled without an API key) and
\* presses "Procesar factura cargada" (line 299).
ClickSingle(f) ==
    /\ pc = "idle"
    /\ has_api_key
    /\ trigger' = "single"
    /\ uploaded' = f
    /\ pc' = "top"
    /\ UNCHANGED <<now, sessionVars, keyInput, has_api_key, pdf_files, runnerVars,
                   screen, exportVars, calls>>

\* ------------------------------------------------------- the script run
\* The script reaches its last line (317): its locals are gone, the page
\* stays as rendered and waits for the operator.
EndOfScript ==
    /\ pc' = "idle"
    /\ trigger' = "none"
    /\ uploaded' = None
    /\ pdf_files' = <<>>
    /\ run_files' = <<>>
    /\ idx' = 0
    /\ results' = <<>>
    /\ statusLog' = <<>>
    /\ progressLog' = <<>>

\* Lines 114-191: the sidebar (API key into the session, enumeration of the
\* folder), has_api_key, and the batch button with its empty-folder branch.
\* A rerun starts from a blank page.
ScriptTop ==
    /\ pc = "top"
    /\ ss_api_key' = ApiKeyFromInput(keyInput)
    /\ ss_keys' = ss_keys \cup {"api_key"}
    /\ has_api_key' = HasApiKey(ss_api_key')
    /\ \E files \in Glob : pdf_files' = files
    /\ calls' = <<>>
    /\ IF trigger = "batch"
       THEN IF pdf_files' = <<>>
            THEN /\ screen' = <<NoFacturas>>
                 /\ pc' = "export"
            ELSE /\ screen' = <<>>
                 /\ pc' = "runner"
       ELSE /\ screen' = <<>>
            /\ pc' = "export"
    /\ combined_text' = <<>>
    /\ df_summary' = <<>>
    /\ UNCHANGED <<now, keyInput, ss_results, ss_processed_at, trigger, uploaded,
                   runnerVars>>

\* Lines 195, 68-75: process_all_invoices starts and enumerates the folder
\* itself. With no file it returns None, len(None) raises on line 197 and
\* the except clause of line 202 reports it. The page's own pdf_files was
\* last read on line 190 and is forgotten here.
RunnerGlob ==
    /\ pc = "runner"
    /\ results' = <<>>
    /\ idx' = 0
    /\ pdf_files' = <<>>
    /\ \E files \in Glob :
        /\ run_files' = files
        /\ IF files = <<>>
           THEN /\ screen' = screen \o BatchExcept(NoneTypeError)
                /\ pc' = "export"
           ELSE /\ screen' = screen
                /\ pc' = "call"
    /\ UNCHANGED <<now, sessionVars, keyInput, trigger, uploaded, has_api_key, statusLog,
                   progressLog, exportVars, calls>>

\* Line 78: the status text of the file at position idx.
StatusLine == [index |-> idx + 1, total |-> Len(run_files), filename |-> run_files[idx + 1]]

RECURSIVE DictUpdate(_, _)
\* old.update(new)
DictUpdate(old, new) ==
    IF new = <<>> THEN old
    ELSE DictUpdate(DictSet(old, Head(new).filename, Head(new)), Tail(new))

\* A page that would merge the run's outcomes into the stored ones.
StoreRunMerges(d, t0) ==
    /\ screen' = Append(screen, Completado(Len(d)))
    /\ ss_results' = DictUpdate(ss_results, d)
    /\ \E t \in ClockAfter(t0) :
        /\ now' = t
        /\ ss_processed_at' = t
    /\ ss_keys' = ss_keys \cup {"results", "processed_at"}
    /\ pc' = "export"

\* Lines 197-201, after process_all_invoices returned the dict d, the clock
\* last read at t0: the page announces the run and stores the dict and the
\* time in the session.
StoreRun(d, t0) ==
    /\ screen' = Append(screen, Completado(Len(d)))
    /\ ss_results' = d
    /\ \E t \in ClockAfter(t0) :
        /\ now' = t
        /\ ss_processed_at' = t
    /\ ss_keys' = ss_keys \cup {"results", "processed_at"}
    /\ pc' = "export"

\* Line 94 and what follows it: the progress bar moves; then either the loop
\* goes to the next file, or the runner returns its dict (lines 96-99) and
\* the page stores it. t0 is the last reading of the clock.
LoopStep(t0) ==
    /\ progressLog' = Append(progressLog, [done |-> idx + 1, total |-> Len(run_files)])
    /\ idx' = idx + 1
    /\ IF idx + 1 < Len(run_files)
       THEN /\ pc' = "call"
            /\ now' = t0
            /\ UNCHANGED <<sessionVars, screen>>
       ELSE /\ StoreRun(results', t0)
            /\ UNCHANGED ss_api_key

\* A status text that would count from zero.
ExtractStartZeroBased ==
    /\ pc = "call"
    /\ statusLog' = Append(statusLog, [StatusLine EXCEPT !.index = idx])
    /\ calls' = CallStarted(run_files[idx + 1])
    /\ pc' = "wait"
    /\ UNCHANGED <<now, sessionVars, pageVars, run_files, idx, results, progressLog,
                   screen, exportVars>>

\* A call that would be submitted without waiting for its answer.
ExtractStartNoWait ==
    /\ pc = "call"
    /\ statusLog' = Append(statusLog, StatusLine)
    /\ calls' = CallStarted(run_files[idx + 1])
    /\ progressLog' = Append(progressLog, [done |-> idx + 1, total |-> Len(run_files)])
    /\ idx' = idx + 1
    /\ pc' = IF idx + 1 < Len(run_files) THEN "call" ELSE "wait"
    /\ UNCHANGED <<now, sessionVars, pageVars, run_files, results, screen, exportVars>>

\* A runner that would reuse the session's outcome of a file instead of
\* calling the service again.
ExtractStartCached ==
    /\ pc = "call"
    /\ statusLog' = Append(statusLog, StatusLine)
    /\ IF \E i \in 1..Len(ss_results) : ss_results[i].filename = run_files[idx + 1]
       THEN /\ results' = DictSet(results, run_files[idx + 1],
                    ss_results[CHOOSE i \in 1..Len(ss_results) :
                                   ss_results[i].filename = run_files[idx + 1]])
            /\ calls' = calls
            /\ LoopStep(now)
       ELSE /\ results' = results
            /\ calls' = CallStarted(run_files[idx + 1])
            /\ pc' = "wait"
            /\ UNCHANGED <<now, idx, progressLog, sessionVars, screen>>
    /\ UNCHANGED <<pageVars, run_files, exportVars>>

\* Lines 77-81: the status text is shown, then extract_iva_from_pdf is called
\* and blocks on the remote service.
ExtractStart ==
    /\ pc = "call"
    /\ statusLog' = Append(statusLog, StatusLine)
    /\ calls' = CallStarted(run_files[idx + 1])
    /\ pc' = "wait"
    /\ UNCHANGED <<now, sessionVars, pageVars, run_files, idx, results, progressLog,
                   screen, exportVars>>

\* Lines 81-86 and 94-99: the call returns the model's text, the outcome is
\* recorded and the loop steps.
ExtractReturn ==
    /\ pc = "wait"
    /\ calls' = CallReturned
    /\ \E t \in ClockReads :
        /\ results' = DictSet(results, run_files[idx + 1],
                              SuccessOutcome(run_files[idx + 1], Payload, t))
        /\ LoopStep(t)
    /\ UNCHANGED <<pageVars, run_files, statusLog, exportVars>>

\* An except clause that would record nothing.
ExtractRaiseDrops(e) ==
    /\ pc = "wait"
    /\ calls' = CallRaised(e)
    /\ results' = results
    /\ LoopStep(now)
    /\ UNCHANGED <<pageVars, run_files, statusLog, exportVars>>

\* A loop without try/except: the failure would leave the runner and reach
\* the except clause of line 202.
ExtractRaisePropagates(e) ==
    /\ pc = "wait"
    /\ calls' = CallRaised(e)
    /\ screen' = screen \o BatchExcept(e)
    /\ pc' = "export"
    /\ UNCHANGED <<now, sessionVars, pageVars, runnerVars, exportVars>>

\* Lines 87-99: the call raises, the failure is recorded as an outcome and
\* the loop steps.
ExtractRaise(e) ==
    /\ pc = "wait"
    /\ calls' = CallRaised(e)
    /\ \E t \in ClockReads :
        /\ results' = DictSet(results, run_files[idx + 1],
                              ErrorOutcome(run_files[idx + 1], e, t))
        /\ LoopStep(t)
    /\ UNCHANGED <<pageVars, run_files, statusLog, exportVars>>

\* Lines 207-287: the exports and the result tabs are built from the session.
Export ==
    /\ pc = "export"
    /\ IF "results" \in ss_keys
       THEN /\ combined_text' = Report(ss_results, ss_processed_at)
            /\ df_summary' = create_summary_table(ss_results)
       ELSE UNCHANGED exportVars
    /\ pc' = "tail"
    /\ UNCHANGED <<now, sessionVars, pageVars, runnerVars, screen, calls>>

\* Lines 289-303: the single-file section. With the button pressed the
\* uploaded file is saved into the folder and extracted; otherwise the
\* script ends.
SingleSection ==
    /\ pc = "tail"
    /\ IF uploaded # None /\ has_api_key /\ trigger = "single"
       THEN /\ pc' = "single"
            /\ UNCHANGED <<trigger, uploaded, pdf_files, runnerVars>>
       ELSE EndOfScript
    /\ UNCHANGED <<now, sessionVars, keyInput, has_api_key, screen, exportVars, calls>>

\* Line 307: the single extraction is called.
SingleStart ==
    /\ pc = "single"
    /\ calls' = CallStarted(uploaded)
    /\ pc' = "single_wait"
    /\ UNCHANGED <<now, sessionVars, pageVars, runnerVars, screen, exportVars>>

\* Lines 308-309, and the end of the script.
SingleReturn ==
    /\ pc = "single_wait"
    /\ calls' = CallReturned
    /\ screen' = Append(screen, ExtraccionCompletada)
    /\ EndOfScript
    /\ UNCHANGED <<now, sessionVars, keyInput, has_api_key, exportVars>>

\* Lines 310-313, and the end of the script.
SingleRaise(e) ==
    /\ pc = "single_wait"
    /\ calls' = CallRaised(e)
    /\ screen' = screen \o SingleExcept(e)
    /\ EndOfScript
    /\ UNCHANGED <<now, sessionVars, keyInput, has_api_key, exportVars>>

Next ==
    \/ \E k \in KeyInputs : TypeKey(k)
    \/ ClickBatch
    \/ \E f \in Names : ClickSingle(f)
    \/ ScriptTop
    \/ RunnerGlob
    \/ ExtractStart
    \/ ExtractReturn
    \/ \E e \in Failures : ExtractRaise(e)
    \/ Export
    \/ SingleSection
    \/ SingleStart
    \/ SingleReturn
    \/ \E e \in Failures : SingleRaise(e)

Spec == Init /\ [][Next]_vars

\* =====================================================================
\* Properties
\* =====================================================================
Range(q) == {q[i] : i \in 1..Len(q)}
Shown(kind) == \E i \in 1..Len(screen) : screen[i].kind = kind
\* The runner is inside its loop.
InRunner == pc \in {"call", "wait"}
\* process_all_invoices has returned its dict in this script run.
Returned == pc \in {"export", "tail"} /\ trigger = "batch" /\ run_files # <<>>
RunComplete == Returned
Pending == {i \in 1..Len(calls) : calls[i].result = "pending"}
StatusOf(call) == IF call.result = "returned" THEN "success" ELSE "error"
DataOf(call) == IF call.result = "returned" THEN Payload ELSE <<"Error: ">> \o call.error

\* C1: a run over N enumerated files returns (and stores) exactly N outcomes,
\* keyed by the N filenames, each file exactly once, whether its extraction
\* succeeded or failed.
C1_OneOutcomePerFile ==
    /\ RunComplete =>
        /\ Len(results) = Len(run_files)
        /\ DictKeys(results) = Range(run_files)
        /\ \A f \in Range(run_files) :
              Cardinality({i \in 1..Len(results) : results[i].filename = f}) = 1
    /\ Returned =>
        /\ Len(ss_results) = Len(run_files)
        /\ DictKeys(ss_results) = Range(run_files)

C1_Witness ==
    /\ Returned
    /\ Len(ss_results) = 2
    /\ ss_results[1].status = "error"
    /\ ss_results[2].status = "success"

\* C2: a failed extraction call never aborts the run: it is recorded as an
\* 'error' outcome with a non-empty description, the remaining files are
\* still attempted and the run returns and is announced as completed; an
\* outcome is 'success' exactly when its call returned and 'error' exactly
\* when it raised.
C2_FailureIsolated ==
    /\ (InRunner \/ Returned) =>
        \A i \in 1..Len(results) :
            /\ i <= Len(calls)
            /\ calls[i].filename = results[i].filename
            /\ results[i].status = "success" <=> calls[i].result = "returned"
            /\ results[i].status = "error" <=> calls[i].result = "raised"
            /\ results[i].status = "error" =>
                  /\ results[i].data # <<>>
                  /\ results[i].data = <<"Error: ">> \o calls[i].error
    /\ RunComplete =>
        /\ Len(calls) = Len(run_files)
        /\ \A i \in 1..Len(calls) : calls[i].filename = run_files[i]
        /\ Len(results) = Len(run_files)
    /\ Returned =>
        /\ screen = <<Completado(Len(run_files))>>
        /\ ss_results = results

C2_Witness ==
    /\ Returned
    /\ Len(calls) = 2
    /\ calls[1].result = "raised"
    /\ calls[2].result = "returned"
    /\ ss_results[1].status = "error"
    /\ ss_results[2].status = "success"

\* C3: the run emits one progress notification per file, with the indices
\* 1..N in increasing order without gap, the total N and the file's name, and
\* the notification of index i is emitted before outcome i is inserted.
C3_ProgressNotifications ==
    (InRunner \/ Returned) =>
        /\ \A i \in 1..Len(statusLog) :
              statusLog[i] = [index |-> i, total |-> Len(run_files),
                              filename |-> run_files[i]]
        /\ Len(results) <= Len(statusLog)
        /\ Len(statusLog) <= Len(results) + 1
        /\ \A i \in 1..Len(results) : results[i].filename = statusLog[i].filename
        /\ RunComplete => Len(statusLog) = Len(run_files)

C3_Witness ==
    /\ pc = "wait"
    /\ Len(statusLog) = 2
    /\ statusLog[2].index = 2
    /\ Len(results) = 1

\* C5: at most one extraction call is in flight, and the call for the file
\* at position i+1 starts only after the outcome of the file at position i
\* has been recorded.
C5_Sequential ==
    /\ Cardinality(Pending) <= 1
    /\ InRunner =>
        /\ \A i \in 1..Len(calls) : \A j \in 1..(i - 1) :
              /\ calls[j].result # "pending"
              /\ j <= Len(results)
              /\ results[j].filename = calls[j].filename
        /\ pc = "wait" => Pending = {Len(calls)} /\ Len(results) = Len(calls) - 1
        /\ pc # "wait" => Pending = {}

C5_Witness ==
    /\ pc = "wait"
    /\ Len(calls) = 2
    /\ Pending = {2}
    /\ Len(results) = 1

\* C6: the outcomes are recorded in enumeration order, and the text report
\* lists one section per file in that order, each with the status label and
\* the payload of its own file.
C6_EnumerationOrder ==
    /\ RunComplete => \A i \in 1..Len(results) : results[i].filename = run_files[i]
    /\ (pc = "tail" /\ trigger = "batch" /\ run_files # <<>>) =>
        /\ Len(combined_text) = 3 + 5 * Len(run_files)
        /\ combined_text[2] = Line("Fecha: ", <<>>, ss_processed_at)
        /\ \A i \in 1..Len(run_files) :
              /\ combined_text[5 * i - 1] = Line("FACTURA: ", <<run_files[i]>>, 0)
              /\ combined_text[5 * i] = Line("Estado: ", <<StatusOf(calls[i])>>, 0)
              /\ combined_text[5 * i + 2] = Line("", DataOf(calls[i]), 0)

C6_Witness ==
    /\ pc = "tail"
    /\ trigger = "batch"
    /\ run_files = <<"A.pdf", "B.pdf">>
    /\ calls[1].result = "returned"
    /\ calls[2].result = "raised"
    /\ calls[2].error = Timeout
    /\ combined_text[4] = Line("FACTURA: ", <<"A.pdf">>, 0)
    /\ combined_text[5] = Line("Estado: ", <<"success">>, 0)
    /\ combined_text[9] = Line("FACTURA: ", <<"B.pdf">>, 0)
    /\ combined_text[10] = Line("Estado: ", <<"error">>, 0)

\* C4: when the batch button is pressed and the folder is found empty, by the
\* page's enumeration or by the runner's own, the page shows the "no invoices"
\* message and reports neither a processing error nor a completed run.
C4_EmptySetSignal ==
    (pc \in {"export", "tail"} /\ trigger = "batch" /\ run_files = <<>>) =>
        /\ screen = <<NoFacturas>>
        /\ ~Shown(ErrorProcesamiento(<<>>).kind)
        /\ ~Shown(Completado(0).kind)

\* C7: an extraction failure whose description carries an authentication
\* signal is shown with the "API Key invalida" message, in a batch run as for
\* a single uploaded file.
C7_AuthFailureSurfaced ==
    (pc \in {"tail", "idle"}) =>
        ((\E i \in 1..Len(calls) :
              calls[i].result = "raised" /\ IsAuthError(calls[i].error))
            => \E j \in 1..Len(screen) : screen[j] = ApiKeyInvalida)

\* The single-file half of C7: the failure of the uploaded file's extraction
\* is shown, with the "API Key invalida" message exactly when its description
\* carries an authentication signal.
SingleAuthFailureSurfaced ==
    (pc = "idle" /\ Len(calls) = 1 /\ calls[1].result = "raised" /\ ~Shown(Completado(0).kind)
        /\ ~Shown(NoFacturas.kind) /\ ~Shown(ErrorProcesamiento(<<>>).kind)) =>
        /\ screen[1] = ErrorIndividual(calls[1].error)
        /\ IsAuthError(calls[1].error) <=> (\E j \in 1..Len(screen) : screen[j] = ApiKeyInvalida)

\* C8: no extraction call is made and no batch run is under way while the
\* session holds no API key; a step taken without a key, or in a script run
\* that reported a run-level failure, leaves the stored result set and
\* processed_at as they were.
NoRunWithoutKey ==
    (InRunner \/ pc \in {"runner", "single", "single_wait"} \/ Pending # {})
        => HasApiKey(ss_api_key)
StoredUnchanged ==
    /\ ss_results' = ss_results
    /\ ss_processed_at' = ss_processed_at
    /\ ("results" \in ss_keys') <=> ("results" \in ss_keys)
    /\ ("processed_at" \in ss_keys') <=> ("processed_at" \in ss_keys)
NothingRecorded ==
    /\ ~HasApiKey(ss_api_key) => StoredUnchanged /\ (calls' = calls \/ calls' = <<>>)
    /\ (\E i \in 1..Len(screen') : screen'[i].kind = ErrorProcesamiento(<<>>).kind)
          => StoredUnchanged
C8_NoRunWithoutKey == [](NoRunWithoutKey) /\ [][NothingRecorded]_vars

C8_Witness ==
    /\ pc = "tail"
    /\ Shown(ErrorProcesamiento(<<>>).kind)
    /\ "results" \in ss_keys
    /\ combined_text = Report(ss_results, ss_processed_at)
    /\ Len(ss_results) = 2

\* C9: the stored result set and processed_at change only when a batch run
\* completes, and then the stored set is exactly the set of that run's
\* outcomes, keyed by the files that run enumerated, and processed_at is the
\* time of that completion: nothing of an earlier run is kept.
C9_Supersede ==
    [][ /\ ~StoredUnchanged => (pc = "wait" /\ pc' = "export")
        /\ (pc = "wait" /\ pc' = "export") =>
              /\ ss_results' = results'
              /\ DictKeys(ss_results') = Range(run_files)
              /\ Len(ss_results') = Len(run_files)
              /\ ss_processed_at' = now'
              /\ {"results", "processed_at"} \subseteq ss_keys'
      ]_vars

\* The last call of a run is in flight while the session holds the outcomes
\* of an earlier run, one of them of a file this run did not enumerate: the
\* step that follows stores this run's outcomes.
C9_Witness ==
    /\ pc = "wait"
    /\ idx + 1 = Len(run_files)
    /\ "results" \in ss_keys
    /\ \E f \in DictKeys(ss_results) : f \notin Range(run_files)
    /\ \E f \in Range(run_files) : f \notin DictKeys(ss_results)

\* C10: the extraction client is called exactly once per enumerated file per
\* run, in order: never again after a failure, and never skipped because an
\* earlier run already holds an outcome for the file.
C10_OneCallPerFile ==
    /\ InRunner =>
        /\ \A i \in 1..Len(calls) : calls[i].filename = run_files[i]
        /\ pc = "call" => Len(calls) = idx
        /\ pc = "wait" => Len(calls) = idx + 1
    /\ RunComplete =>
        /\ Len(calls) = Len(run_files)
        /\ \A i \in 1..Len(calls) : calls[i].filename = run_files[i]

\* A run the session already holds outcomes for: its first call has failed,
\* and the call in flight is the one of the next file, of which the session
\* holds an outcome.
C10_Witness ==
    /\ pc = "wait"
    /\ "results" \in ss_keys
    /\ Len(calls) = 2
    /\ calls[1].result = "raised"
    /\ calls[2].result = "pending"
    /\ calls[2].filename # calls[1].filename
    /\ {calls[1].filename, calls[2].filename} \subseteq DictKeys(ss_results)

=============================================================================
